---- MODULE Spec2Model ----
(***************************************************************************)
(* Model of objectbox-go's Query (objectbox/query.go) and of the generated *)
(* entity binding (the binding template).                                  *)
(*                                                                         *)
(* Spec      : one Query used by one caller; every action is one whole     *)
(*             method call, native outcomes are chosen nondeterministically*)
(* SpecConc  : the same Query used by several goroutines and, once they    *)
(*             have dropped it, by the finalizer; every method split at    *)
(*             its reads and writes of the Query's fields.                 *)
(* SpecBind  : the binding template rendered for an entity and the         *)
(*             rendered Flatten / ToObject / typed Get run on a record.    *)
(***************************************************************************)
EXTENDS Integers, Sequences, FiniteSets, TLC

\* ------------------------------------------------------------------ bounds
\* uint64 is modelled as an unsigned word of UintBits bits (wraps modulo 2^UintBits)
UintBits == 3
\* largest number of objects the native query matches
MaxIds == 3
\* largest number of values passed to a parameter setter
MaxValues == 3

\* number of goroutines sharing the Query in SpecConc
NumGoroutines == 2

\* a 32-bit slot is modelled as Int32Bits bits, a 64-bit slot as twice as many
Int32Bits == 3
\* largest number of properties of an entity besides its id property
MaxProps == 2

UintMod == 2 ^ UintBits
\* the offsets and limits callers pass: around the number of ids, and the largest words
PageArgs == (0 .. (MaxIds + 1)) \cup {UintMod - 2, UintMod - 1}
Goroutines == 1 .. NumGoroutines
\* the runtime's finalizer goroutine
Finalizer == NumGoroutines + 1
Procs == Goroutines \cup {Finalizer}

\* ------------------------------------------------------------------ values
NilHandle == "nil"
TheHandle == "cQuery#1"

NoError == "nil"
errorClosed == "illegal state; query was closed"
createError == "native error"
ErrCountUnsupported == "limit/offset are not supported by Count at this moment"
ErrRemoveUnsupported == "limit/offset are not supported by Remove at this moment"
ErrNoValues == "no values given"
ErrTooMany == "too many values given"
PanicSliceBounds == "panic: slice bounds out of range"

\* a Go []uint64: nil, or a (possibly empty) sequence
NilSlice == [isNil |-> TRUE, elems |-> <<>>]
GoSlice(s) == [isNil |-> FALSE, elems |-> s]
GoLen(sl) == Len(sl.elems)

\* the value a method returns beside its error: a count, a slice or a text
NoVal == [count |-> 0, ids |-> NilSlice, text |-> ""]
CountVal(n) == [NoVal EXCEPT !.count = n]
IdsVal(sl) == [NoVal EXCEPT !.ids = sl]
TextVal(t) == [NoVal EXCEPT !.text = t]

\* the ids of the objects matching the query, in the native engine's order
\* (deliberately not ascending: 2, 1, 4, 3, ...)
NativeIds(n) == [i \in 1 .. n |-> IF i % 2 = 1 THEN i + 1 ELSE i - 1]

VARIABLES
    cQuery,        \* Query.cQuery: TheHandle or NilHandle
    offset,        \* Query.offset
    limit,         \* Query.limit
    nativeFreed,   \* the native engine: obx_query_close was invoked on TheHandle
    closeCalls,    \* the native engine: number of obx_query_close invocations
    objects,       \* the native engine: ids matching the query, in native order
    last,          \* the last completed call: what it returned and what it did
    closeMutex,    \* Query.closeMutex: 0 (unlocked) or the goroutine holding it
    pc,            \* SpecConc: where each goroutine is in its current call
    rc,            \* SpecConc: Close's local rc (TRUE: obx_query_close returned 0)
    misuse,        \* SpecConc: kinds of bad handles native query functions were given
    stdout,        \* SpecConc: what the finalizer printed
    entity,        \* SpecBind: the entity of the schema model given to the generator
    goIntBits,     \* SpecBind: width of Go's int and uint on the build's platform
    record,        \* SpecBind: the record handed to Flatten (field name -> value)
    idArg,         \* SpecBind: the id handed to Flatten
    phase,         \* SpecBind: "model", "generated", "flattened", "decoded"
    binding,       \* SpecBind: the binding source rendered from the template
    fbb,           \* SpecBind: the flatbuffers builder after Flatten
    bytes,         \* SpecBind: the buffer handed to ToObject
    got,           \* SpecBind: the last call of the typed box's Get and what it returned
    decoded        \* SpecBind: the record ToObject returned

qvars == <<cQuery, offset, limit, nativeFreed, closeCalls, objects>>
cvars == <<closeMutex, pc, rc, misuse, stdout>>
bvars == <<entity, goIntBits, record, idArg, phase, binding, fbb, bytes, got, decoded>>
vars == <<qvars, last, cvars, bvars>>
\* what the calls of Spec leave alone
others == <<cvars, bvars>>

\* ------------------------------------------------------------ native engine
NativeCall(fn, h, cursor, args) == [fn |-> fn, handle |-> h, cursor |-> cursor, args |-> args]

\* what a method call returns and does:
\*   val, err : the returned values (err = PanicSliceBounds: the call panicked)
\*   calls    : the native calls made, in order
\*   cursors  : the cursors acquired (and released) by the call, in order
\*   objs     : the stored objects after the call
Outcome(val, err, calls, objs) == [val |-> val, err |-> err, calls |-> calls, cursors |-> <<>>, objs |-> objs]

\* ObjectBox.runWithCursor: acquires a cursor (read-only or writable), runs fn in it,
\* releases the cursor and returns fn's error
\* (returned: what fn returned, run with OpenCursor(readOnly))
OpenCursor(readOnly) == IF readOnly THEN "read" ELSE "write"
runWithCursor(readOnly, returned) == [returned EXCEPT !.cursors = <<OpenCursor(readOnly)>>]

\* ------------------------------------------------------------ Query methods
TheQuery == [cQuery |-> cQuery, offset |-> offset, limit |-> limit]

\* rcOk: the native call reports success
count(q, cursor, objs, rcOk) ==
    IF q.cQuery = NilHandle
    THEN Outcome(NoVal, errorClosed, <<>>, objs)
    ELSE LET call == NativeCall("obx_query_count", q.cQuery, cursor, <<>>)
         IN  IF ~rcOk
             THEN Outcome(NoVal, createError, <<call>>, objs)
             ELSE Outcome(CountVal(Len(objs)), NoError, <<call>>, objs)

remove(q, cursor, objs, rcOk) ==
    IF q.cQuery = NilHandle
    THEN Outcome(NoVal, errorClosed, <<>>, objs)
    ELSE LET call == NativeCall("obx_query_remove", q.cQuery, cursor, <<>>)
         IN  IF ~rcOk
             THEN Outcome(NoVal, createError, <<call>>, objs)
             ELSE Outcome(CountVal(Len(objs)), NoError, <<call>>, <<>>)

\* emptyNil: cIdsArrayToGo yields a nil slice for an empty native array
findIds(q, cursor, objs, rcOk, emptyNil) ==
    IF q.cQuery = NilHandle
    THEN Outcome(IdsVal(NilSlice), errorClosed, <<>>, objs)
    ELSE LET call == NativeCall("obx_query_find_ids", q.cQuery, cursor, <<>>)
         IN  IF ~rcOk
             THEN Outcome(IdsVal(NilSlice), createError, <<call>>, objs)
             ELSE Outcome(IdsVal(IF objs = <<>> /\ emptyNil THEN NilSlice ELSE GoSlice(objs)),
                          NoError, <<call>>, objs)

\* the native find applies offset and limit itself (0 = no limit)
NativeFind(objs, off, lim) ==
    LET n == Len(objs)
        from == IF off > n THEN n ELSE off
        to == IF lim # 0 /\ from + lim < n THEN from + lim ELSE n
    IN  SubSeq(objs, from + 1, to)

find(q, cursor, objs, rcOk) ==
    IF q.cQuery = NilHandle
    THEN Outcome(NoVal, errorClosed, <<>>, objs)
    ELSE LET call == NativeCall("obx_query_find", q.cQuery, cursor, <<q.offset, q.limit>>)
         IN  IF ~rcOk
             THEN Outcome(IdsVal(NilSlice), createError, <<call>>, objs)
             ELSE Outcome(IdsVal(GoSlice(NativeFind(objs, q.offset, q.limit))), NoError, <<call>>, objs)

Find(q, objs, rcOk) ==
    runWithCursor(TRUE, find(q, OpenCursor(TRUE), objs, rcOk))

\* Go's ids[lo:hi]: panics unless lo <= hi <= cap(ids)
SliceExpr(sl, lo, hi) ==
    IF lo <= hi /\ hi <= GoLen(sl)
    THEN [val |-> [isNil |-> sl.isNil, elems |-> SubSeq(sl.elems, lo + 1, hi)], err |-> NoError]
    ELSE [val |-> NilSlice, err |-> PanicSliceBounds]

FindIds(q, objs, rcOk, emptyNil) ==
    LET r == runWithCursor(TRUE, findIds(q, OpenCursor(TRUE), objs, rcOk, emptyNil))
        ids == r.val.ids
        err == r.err
    IN  IF q.offset # 0 \/ (q.limit # 0 /\ err = NoError /\ ~ids.isNil)
        THEN LET len == GoLen(ids)
                 sum == (q.offset + q.limit) % UintMod
                 endOffset == IF q.limit # 0 /\ sum < len THEN sum ELSE len
                 s == SliceExpr(ids, q.offset, endOffset)
             IN  [r EXCEPT !.val = IdsVal(s.val), !.err = s.err]
        ELSE r

\* Count as it would be if its guard tested the offset alone
CountIgnoresLimit(q, objs, rcOk) ==
    IF q.offset # 0
    THEN Outcome(NoVal, ErrCountUnsupported, <<>>, objs)
    ELSE runWithCursor(TRUE, count(q, OpenCursor(TRUE), objs, rcOk))

Count(q, objs, rcOk) ==
    IF q.offset # 0 \/ q.limit # 0
    THEN Outcome(NoVal, ErrCountUnsupported, <<>>, objs)
    ELSE runWithCursor(TRUE, count(q, OpenCursor(TRUE), objs, rcOk))

\* Remove as it would be if it ran in a read-only cursor
RemoveInReadCursor(q, objs, rcOk) ==
    IF q.offset # 0 \/ q.limit # 0
    THEN Outcome(NoVal, ErrRemoveUnsupported, <<>>, objs)
    ELSE runWithCursor(TRUE, remove(q, OpenCursor(TRUE), objs, rcOk))

Remove(q, objs, rcOk) ==
    IF q.offset # 0 \/ q.limit # 0
    THEN Outcome(NoVal, ErrRemoveUnsupported, <<>>, objs)
    ELSE runWithCursor(FALSE, remove(q, OpenCursor(FALSE), objs, rcOk))

Describe(q, objs) ==
    IF q.cQuery = NilHandle
    THEN Outcome(TextVal(""), errorClosed, <<>>, objs)
    ELSE Outcome(TextVal("description"), NoError,
                 <<NativeCall("obx_query_describe_params", q.cQuery, "none", <<>>)>>, objs)

\* the tail of every setter: rc of the native binding call to the returned error
RcToError(rcOk) == IF rcOk THEN NoError ELSE createError

SetStringParams(q, values, objs, rcOk) ==
    IF Len(values) = 0 THEN Outcome(NoVal, ErrNoValues, <<>>, objs)
    ELSE IF Len(values) = 1
    THEN Outcome(NoVal, RcToError(rcOk),
                 <<NativeCall("obx_query_string_param", q.cQuery, "none", values)>>, objs)
    ELSE Outcome(NoVal, ErrTooMany, <<>>, objs)

SetStringParamsIn(q, values, objs, rcOk) ==
    IF Len(values) = 0 THEN Outcome(NoVal, ErrNoValues, <<>>, objs)
    ELSE Outcome(NoVal, RcToError(rcOk),
                 <<NativeCall("obx_query_string_params_in", q.cQuery, "none", values)>>, objs)

\* SetInt64Params as it would be if it handed any number of values above one to the
\* native range call
SetInt64ParamsAnyCount(q, values, objs, rcOk) ==
    IF Len(values) = 0 THEN Outcome(NoVal, ErrNoValues, <<>>, objs)
    ELSE IF Len(values) = 1
    THEN Outcome(NoVal, RcToError(rcOk),
                 <<NativeCall("obx_query_int_param", q.cQuery, "none", values)>>, objs)
    ELSE Outcome(NoVal, RcToError(rcOk),
                 <<NativeCall("obx_query_int_params", q.cQuery, "none", values)>>, objs)

SetInt64Params(q, values, objs, rcOk) ==
    IF Len(values) = 0 THEN Outcome(NoVal, ErrNoValues, <<>>, objs)
    ELSE IF Len(values) = 1
    THEN Outcome(NoVal, RcToError(rcOk),
                 <<NativeCall("obx_query_int_param", q.cQuery, "none", values)>>, objs)
    ELSE IF Len(values) = 2
    THEN Outcome(NoVal, RcToError(rcOk),
                 <<NativeCall("obx_query_int_params", q.cQuery, "none", values)>>, objs)
    ELSE Outcome(NoVal, ErrTooMany, <<>>, objs)

SetInt64ParamsIn(q, values, objs, rcOk) ==
    IF Len(values) = 0 THEN Outcome(NoVal, ErrNoValues, <<>>, objs)
    ELSE Outcome(NoVal, RcToError(rcOk),
                 <<NativeCall("obx_query_int64_params_in", q.cQuery, "none", values)>>, objs)

SetInt32ParamsIn(q, values, objs, rcOk) ==
    IF Len(values) = 0 THEN Outcome(NoVal, ErrNoValues, <<>>, objs)
    ELSE Outcome(NoVal, RcToError(rcOk),
                 <<NativeCall("obx_query_int32_params_in", q.cQuery, "none", values)>>, objs)

SetFloat64Params(q, values, objs, rcOk) ==
    IF Len(values) = 0 THEN Outcome(NoVal, ErrNoValues, <<>>, objs)
    ELSE IF Len(values) = 1
    THEN Outcome(NoVal, RcToError(rcOk),
                 <<NativeCall("obx_query_double_param", q.cQuery, "none", values)>>, objs)
    ELSE IF Len(values) = 2
    THEN Outcome(NoVal, RcToError(rcOk),
                 <<NativeCall("obx_query_double_params", q.cQuery, "none", values)>>, objs)
    ELSE Outcome(NoVal, ErrTooMany, <<>>, objs)

SetBytesParams(q, values, objs, rcOk) ==
    IF Len(values) = 0 THEN Outcome(NoVal, ErrNoValues, <<>>, objs)
    ELSE IF Len(values) = 1
    THEN Outcome(NoVal, RcToError(rcOk),
                 <<NativeCall("obx_query_bytes_param", q.cQuery, "none", values)>>, objs)
    ELSE Outcome(NoVal, ErrTooMany, <<>>, objs)

Setters == {"SetStringParams", "SetStringParamsIn", "SetInt64Params", "SetInt64ParamsIn",
            "SetInt32ParamsIn", "SetFloat64Params", "SetBytesParams"}

\* the variadic values of a setter call: n values
ParamValues(n) == [i \in 1 .. n |-> i]

\* ------------------------------------------------------- binding generator
\* Go types of properties. "[]string" stands for a variable-length type the
\* template has no rule for.
FixedGoTypes == {"bool", "int", "uint", "rune", "int64", "uint64"}
OffsetGoTypes == {"string", "[]byte", "[]string"}
GoTypes == FixedGoTypes \cup OffsetGoTypes

\* the flatbuffers type the schema model gives a property of a Go type
FbTypeOf(goType) ==
    CASE goType = "bool" -> "Bool"
      [] goType = "int" -> "Int32"
      [] goType = "uint" -> "Uint32"
      [] goType = "rune" -> "Int32"
      [] goType = "int64" -> "Int64"
      [] goType = "uint64" -> "Uint64"
      [] goType \in OffsetGoTypes -> "UOffsetT"

\* strings.Title on the Go type names
StringTitle(s) ==
    CASE s = "int64" -> "Int64"
      [] s = "uint64" -> "Uint64"
      [] s = "[]string" -> "[]String"
      [] OTHER -> s

\* a property of the schema model: slot k of the table, vtable offset 4 + 2k
Property(name, goType, slot) ==
    [Name |-> name, GoType |-> goType, FbType |-> FbTypeOf(goType), FbSlot |-> slot,
     FbvTableOffset |-> 4 + 2 * slot]

IdName == "Id"
PropName(i) == CASE i = 1 -> "A" [] i = 2 -> "B" [] i = 3 -> "C" [] OTHER -> "D"

\* an entity: the id property (uint64) first, then properties of the given Go types
Entity(goTypes) ==
    [Name |-> "Entity",
     Properties |-> <<Property(IdName, "uint64", 0)>> \o
                    [i \in 1 .. Len(goTypes) |-> Property(PropName(i), goTypes[i], i)],
     IdProperty |-> IdName,
     LastPropertyId |-> Len(goTypes) + 1]

IsOffsetProperty(p) == p.FbType = "UOffsetT"

\* template, Flatten: the child-buffer statement of one offset property
OffsetCreation(p) ==
    IF p.GoType = "string" THEN [stmt |-> "CreateStringOffset", prop |-> p.Name]
    ELSE IF p.GoType = "[]byte" THEN [stmt |-> "CreateByteVectorOffset", prop |-> p.Name]
    ELSE [stmt |-> "TODO offset creation is not implemented", prop |-> p.Name]

\* template, Flatten: fbb.Prepend<FbType>Slot(<FbSlot>, <value>, <default>) of one property
SlotWrite(e, p) ==
    LET arg == IF p.FbType = "UOffsetT" THEN [value |-> "offset", default |-> "0"]
               ELSE IF p.Name = e.IdProperty THEN [value |-> "id", default |-> "0"]
               ELSE IF p.GoType = "bool" THEN [value |-> "field", default |-> "false"]
               ELSE IF p.GoType = "int" THEN [value |-> "int32(field)", default |-> "0"]
               ELSE IF p.GoType = "uint" THEN [value |-> "uint32(field)", default |-> "0"]
               ELSE [value |-> "field", default |-> "0"]
    IN  [stmt |-> "Prepend" \o p.FbType \o "Slot", slot |-> p.FbSlot, prop |-> p.Name,
         value |-> arg.value, default |-> arg.default]

\* FieldRead as it would be if the getters were given non-zero defaults
FieldReadOtherDefaults(p) ==
    LET get == IF p.GoType = "bool" THEN [getter |-> "GetBoolSlot", conv |-> "", default |-> "true"]
               ELSE IF p.GoType = "int" THEN [getter |-> "GetUint32Slot", conv |-> "int", default |-> "1"]
               ELSE IF p.GoType = "uint" THEN [getter |-> "GetUint32Slot", conv |-> "uint", default |-> "1"]
               ELSE IF p.GoType = "rune" THEN [getter |-> "GetInt32Slot", conv |-> "rune", default |-> "1"]
               ELSE IF p.GoType = "string" THEN [getter |-> "GetStringSlot", conv |-> "", default |-> ""]
               ELSE IF p.GoType = "[]byte" THEN [getter |-> "GetByteVectorSlot", conv |-> "", default |-> ""]
               ELSE [getter |-> "Get" \o StringTitle(p.GoType) \o "Slot", conv |-> "", default |-> "1"]
    IN  [prop |-> p.Name, getter |-> get.getter, conv |-> get.conv, default |-> get.default,
         offset |-> p.FbvTableOffset]

\* template, ToObject: the initialiser of one field
FieldRead(p) ==
    LET get == IF p.GoType = "bool" THEN [getter |-> "GetBoolSlot", conv |-> "", default |-> "false"]
               ELSE IF p.GoType = "int" THEN [getter |-> "GetUint32Slot", conv |-> "int", default |-> "0"]
               ELSE IF p.GoType = "uint" THEN [getter |-> "GetUint32Slot", conv |-> "uint", default |-> "0"]
               ELSE IF p.GoType = "rune" THEN [getter |-> "GetInt32Slot", conv |-> "rune", default |-> "0"]
               ELSE IF p.GoType = "string" THEN [getter |-> "GetStringSlot", conv |-> "", default |-> ""]
               ELSE IF p.GoType = "[]byte" THEN [getter |-> "GetByteVectorSlot", conv |-> "", default |-> ""]
               ELSE [getter |-> "Get" \o StringTitle(p.GoType) \o "Slot", conv |-> "", default |-> "0"]
    IN  [prop |-> p.Name, getter |-> get.getter, conv |-> get.conv, default |-> get.default,
         offset |-> p.FbvTableOffset]

\* BindingTemplate as it would be if Flatten started the object before it created the
\* child buffers
BindingTemplateStartsFirst(e) ==
    LET props == e.Properties
        offs == SelectSeq(props, IsOffsetProperty)
    IN  [err |-> NoError,
         Flatten |-> <<[stmt |-> "StartObject", slots |-> e.LastPropertyId]>>
                     \o [i \in 1 .. Len(offs) |-> OffsetCreation(offs[i])]
                     \o [i \in 1 .. Len(props) |-> SlotWrite(e, props[i])],
         ToObject |-> [i \in 1 .. Len(props) |-> FieldRead(props[i])]]

\* the binding template executed on one entity: the statements of Flatten and the
\* field initialisers of ToObject. Executing the template raises no error.
BindingTemplate(e) ==
    LET props == e.Properties
        offs == SelectSeq(props, IsOffsetProperty)
    IN  [err |-> NoError,
         Flatten |-> [i \in 1 .. Len(offs) |-> OffsetCreation(offs[i])]
                     \o <<[stmt |-> "StartObject", slots |-> e.LastPropertyId]>>
                     \o [i \in 1 .. Len(props) |-> SlotWrite(e, props[i])],
         ToObject |-> [i \in 1 .. Len(props) |-> FieldRead(props[i])]]

IsPlaceholder(line) == line.stmt = "TODO offset creation is not implemented"
\* the rendered Flatten is Go code
Compiles(b) == \A i \in 1 .. Len(b.Flatten) : ~IsPlaceholder(b.Flatten[i])

\* ------------------------------------------------ the generated binding, run
Int32Mod == 2 ^ Int32Bits
Int64Mod == Int32Mod * Int32Mod

\* two's complement: the low `bits` bits of v, unsigned and signed
Unsigned(v, mod) == ((v % mod) + mod) % mod
Signed(v, mod) == LET u == Unsigned(v, mod) IN IF 2 * u >= mod THEN u - mod ELSE u

ModOf(fbType) == IF fbType \in {"Int64", "Uint64"} THEN Int64Mod ELSE Int32Mod
GoIntMod == 2 ^ goIntBits

EmptyTable == [s \in {} |-> 0]
NewBuilder == [children |-> <<>>, offsets |-> EmptyTable, started |-> 0, table |-> EmptyTable,
               calls |-> <<>>]

\* fbutils.CreateStringOffset / CreateByteVectorOffset: a child buffer holding the
\* value is created and its offset (never 0) returned
CreateOffset(b, line, ent) ==
    [b EXCEPT !.children = Append(@, ent[line.prop]),
              !.offsets = (line.prop :> (Len(b.children) + 1)) @@ @,
              !.calls = Append(@, [fn |-> line.stmt, prop |-> line.prop])]

\* flatbuffers Builder.Prepend<T>Slot(slot, x, d): the slot is written unless x = d;
\* an integer is stored as the bit pattern of its type's width
PrependSlot(b, line, ent, id) ==
    LET fbType == CASE line.stmt = "PrependBoolSlot" -> "Bool"
                    [] line.stmt = "PrependInt32Slot" -> "Int32"
                    [] line.stmt = "PrependUint32Slot" -> "Uint32"
                    [] line.stmt = "PrependInt64Slot" -> "Int64"
                    [] line.stmt = "PrependUint64Slot" -> "Uint64"
                    [] line.stmt = "PrependUOffsetTSlot" -> "UOffsetT"
        x == CASE line.value = "offset" -> b.offsets[line.prop]
               [] line.value = "id" -> id
               [] line.value = "int32(field)" -> Signed(ent[line.prop], Int32Mod)
               [] line.value = "uint32(field)" -> Unsigned(ent[line.prop], Int32Mod)
               [] line.value = "field" -> ent[line.prop]
        isDefault == IF line.default = "false" THEN x = FALSE ELSE x = 0
        cell == IF fbType \in {"Bool", "UOffsetT"} THEN x ELSE Unsigned(x, ModOf(fbType))
    IN  [b EXCEPT !.table = IF isDefault THEN @ ELSE (line.slot :> cell) @@ @,
                  !.calls = Append(@, [fn |-> line.stmt, slot |-> line.slot, prop |-> line.prop])]

FlattenStatement(b, line, ent, id) ==
    IF line.stmt \in {"CreateStringOffset", "CreateByteVectorOffset"} THEN CreateOffset(b, line, ent)
    ELSE IF line.stmt = "StartObject"
    THEN [b EXCEPT !.started = line.slots,
                   !.calls = Append(@, [fn |-> "StartObject", slots |-> line.slots])]
    ELSE PrependSlot(b, line, ent, id)

RECURSIVE RunStatements(_, _, _, _)
RunStatements(b, lines, ent, id) ==
    IF lines = <<>> THEN b
    ELSE RunStatements(FlattenStatement(b, Head(lines), ent, id), Tail(lines), ent, id)

\* the generated Flatten(entity, fbb, id)
Flatten(code, ent, id) == RunStatements(NewBuilder, code.Flatten, ent, id)

\* the default the rendered getter call passes
DefaultArg(f) ==
    CASE f.default = "false" -> FALSE
      [] f.default = "true" -> TRUE
      [] f.default = "0" -> 0
      [] f.default = "1" -> 1

\* table.Get<T>Slot(vtableOffset, default) and the conversion around it
GetSlot(b, f) ==
    LET slot == (f.offset - 4) \div 2
        present == slot \in DOMAIN b.table
        cell == b.table[slot]
    IN  CASE f.getter = "GetBoolSlot" -> IF present THEN cell ELSE DefaultArg(f)
          [] f.getter = "GetUint32Slot" -> IF present THEN Unsigned(cell, Int32Mod) ELSE DefaultArg(f)
          [] f.getter = "GetInt32Slot" -> IF present THEN Signed(cell, Int32Mod) ELSE DefaultArg(f)
          [] f.getter = "GetInt64Slot" -> IF present THEN Signed(cell, Int64Mod) ELSE DefaultArg(f)
          [] f.getter = "GetUint64Slot" -> IF present THEN Unsigned(cell, Int64Mod) ELSE DefaultArg(f)
          [] f.getter = "GetStringSlot" -> IF present THEN b.children[cell] ELSE ""
          [] f.getter = "GetByteVectorSlot" -> IF present THEN b.children[cell] ELSE <<>>

Convert(f, v) ==
    CASE f.conv = "int" -> Signed(v, GoIntMod)
      [] f.conv = "uint" -> Unsigned(v, GoIntMod)
      [] f.conv = "rune" -> Signed(v, Int32Mod)
      [] OTHER -> v

\* the generated ToObject(bytes)
ToObject(code, b) ==
    LET fields == code.ToObject
        at(name) == CHOOSE i \in 1 .. Len(fields) : fields[i].prop = name
    IN  [name \in {fields[i].prop : i \in 1 .. Len(fields)} |->
            Convert(fields[at(name)], GetSlot(b, fields[at(name)]))]

\* values a field of a Go type holds
FieldValues(goType) ==
    CASE goType = "bool" -> BOOLEAN
      [] goType = "int" -> {-(Int32Mod \div 2), -1, 0, 1, (Int32Mod \div 2) - 1}
      [] goType = "uint" -> {0, 1, Int32Mod \div 2, Int32Mod - 1}
      [] goType = "rune" -> {-1, 0, 1, (Int32Mod \div 2) - 1}
      [] goType = "int64" -> {-(Int64Mod \div 2), 0, (Int64Mod \div 2) - 1}
      [] goType = "uint64" -> {0}
      [] goType = "string" -> {"", "a"}
      [] goType = "[]byte" -> {<<>>, <<7>>}
      [] goType = "[]string" -> {<<>>}

\* ---------------------------------------------------- the generated typed box
\* an interface{} or pointer value: nil, or an object of a dynamic type
NilObject == [type |-> "nil", fields |-> EmptyTable]
Object(type, fields) == [type |-> type, fields |-> fields]

\* ids the typed box is asked for: the stored one and others
GetIds == 1 .. 3

\* Box.Get(id) of the untyped box: a read in a cursor and the binding's ToObject on the
\* bytes found. fails: the native read fails; partial: an object is returned beside the
\* error
BoxGet(code, store, id, fails, partial) ==
    LET found == IF id \in DOMAIN store
                 THEN Object("*Entity", ToObject(code, store[id]))
                 ELSE NilObject
    IN  IF fails
        THEN [entity |-> IF partial THEN found ELSE NilObject, err |-> createError]
        ELSE [entity |-> found, err |-> NoError]

\* Get as it would be if it reported a missing object as an error
GetMissingIsError(inner) ==
    IF inner.err # NoError
    THEN [entity |-> NilObject, err |-> inner.err]
    ELSE IF inner.entity = NilObject
    THEN [entity |-> NilObject, err |-> "not found"]
    ELSE [entity |-> inner.entity, err |-> NoError]

\* the typed box's Get(id), given what box.Box.Get(id) returned; entity.(*Entity) is the
\* object itself when its dynamic type is *Entity and panics otherwise
Get(inner) ==
    IF inner.err # NoError
    THEN [entity |-> NilObject, err |-> inner.err]
    ELSE IF inner.entity = NilObject
    THEN [entity |-> NilObject, err |-> NoError]
    ELSE IF inner.entity.type = "*Entity"
    THEN [entity |-> inner.entity, err |-> NoError]
    ELSE [entity |-> NilObject, err |-> "panic: interface conversion"]

NoGet == [id |-> 0, inner |-> [entity |-> NilObject, err |-> NoError],
          entity |-> NilObject, err |-> NoError]

\* ------------------------------------------------------- SpecBind: actions
NoBinding == [err |-> NoError, Flatten |-> <<>>, ToObject |-> <<>>]

InitNoBinding ==
    /\ entity = Entity(<<>>)
    /\ goIntBits = 2 * Int32Bits
    /\ record = (IdName :> 0)
    /\ idArg = 0
    /\ phase = "model"
    /\ binding = NoBinding
    /\ fbb = NewBuilder
    /\ bytes = NewBuilder
    /\ got = NoGet
    /\ decoded = (IdName :> 0)

TypeLists == UNION {[1 .. n -> GoTypes] : n \in 1 .. MaxProps}

\* the records of an entity: every field holds a value of its Go type
RECURSIVE RecordsOf(_)
RecordsOf(props) ==
    IF props = <<>> THEN {EmptyTable}
    ELSE {(Head(props).Name :> v) @@ r :
              v \in FieldValues(Head(props).GoType), r \in RecordsOf(Tail(props))}

Records(e) == RecordsOf(e.Properties)

\* the generator runs the template on the entity
Generate ==
    /\ phase = "model"
    /\ binding' = BindingTemplate(entity)
    /\ phase' = "generated"
    /\ UNCHANGED <<entity, goIntBits, record, idArg, fbb, bytes, got, decoded, qvars, last, cvars>>

\* the generated Flatten runs (the rendered source has to be Go code for that)
CallFlatten ==
    /\ phase = "generated"
    /\ Compiles(binding)
    /\ fbb' = Flatten(binding, record, idArg)
    /\ phase' = "flattened"
    /\ UNCHANGED <<entity, goIntBits, record, idArg, binding, bytes, got, decoded, qvars, last, cvars>>

\* the generated ToObject runs on the buffer Flatten built
CallToObject ==
    /\ phase = "flattened"
    /\ bytes' = fbb
    /\ decoded' = ToObject(binding, fbb)
    /\ phase' = "decoded"
    /\ UNCHANGED <<entity, goIntBits, record, idArg, binding, fbb, got, qvars, last, cvars>>

\* a buffer that lacks some of the slots Flatten wrote (a record stored before the
\* property existed)
WithoutSlots(b, slots) == [b EXCEPT !.table = [s \in (DOMAIN b.table) \ slots |-> b.table[s]]]

\* the generated ToObject runs on a buffer in which slots are absent
CallToObjectOlder ==
    /\ phase = "flattened"
    /\ \E slots \in (SUBSET DOMAIN fbb.table) \ {{}} :
        /\ bytes' = WithoutSlots(fbb, slots)
        /\ decoded' = ToObject(binding, WithoutSlots(fbb, slots))
    /\ phase' = "decoded older"
    /\ UNCHANGED <<entity, goIntBits, record, idArg, binding, fbb, got, qvars, last, cvars>>

\* the typed box's Get runs; the box holds the object Flatten built, under idArg
CallGet ==
    /\ phase = "flattened"
    /\ \E id \in GetIds, fails, partial \in BOOLEAN :
        LET inner == BoxGet(binding, (idArg :> fbb), id, fails, partial)
            r == Get(inner)
        IN  /\ partial => fails
            /\ got' = [id |-> id, inner |-> inner, entity |-> r.entity, err |-> r.err]
    /\ phase' = "got"
    /\ UNCHANGED <<entity, goIntBits, record, idArg, binding, fbb, bytes, decoded, qvars, last, cvars>>

NextBind ==
    \/ Generate
    \/ CallFlatten
    \/ CallToObject
    \/ CallToObjectOlder
    \/ CallGet

\* ------------------------------------------------------------- Spec: actions
\* the Query's fields and the native state before a call
Pre == [cQuery |-> cQuery, offset |-> offset, limit |-> limit, objects |-> objects,
        nativeFreed |-> nativeFreed, closeCalls |-> closeCalls]

\* a call that changes neither a field of the Query nor the native query handle
\*   rc : what the native call of the method reported ("none": no native call made)
Returned(op, arg, r, rcOk) ==
    /\ last' = [op |-> op, arg |-> arg, val |-> r.val, err |-> r.err, calls |-> r.calls,
                rc |-> IF r.calls = <<>> THEN "none" ELSE IF rcOk THEN "ok" ELSE "failed",
                cursors |-> r.cursors, pre |-> Pre]
    /\ objects' = r.objs
    /\ UNCHANGED <<cQuery, offset, limit, nativeFreed, closeCalls, others>>

\* Close as it would be if it did not clear the handle
CloseKeepsHandle ==
    \E rcOk \in BOOLEAN :
        /\ IF cQuery # NilHandle
           THEN /\ closeCalls' = closeCalls + 1
                /\ nativeFreed' = TRUE
                /\ last' = [op |-> "Close", arg |-> 0, val |-> NoVal,
                            err |-> IF rcOk THEN NoError ELSE createError,
                            rc |-> IF rcOk THEN "ok" ELSE "failed",
                            calls |-> <<NativeCall("obx_query_close", cQuery, "none", <<>>)>>,
                            cursors |-> <<>>, pre |-> Pre]
           ELSE /\ rcOk
                /\ last' = [op |-> "Close", arg |-> 0, val |-> NoVal, err |-> NoError,
                            rc |-> "none", calls |-> <<>>, cursors |-> <<>>, pre |-> Pre]
                /\ UNCHANGED <<closeCalls, nativeFreed>>
        /\ UNCHANGED <<cQuery, offset, limit, objects, others>>

\* Close as it would be if it returned the native error before clearing the handle
CloseKeepsHandleOnError ==
    \E rcOk \in BOOLEAN :
        /\ IF cQuery # NilHandle
           THEN /\ closeCalls' = closeCalls + 1
                /\ nativeFreed' = TRUE
                /\ cQuery' = IF rcOk THEN NilHandle ELSE cQuery
                /\ last' = [op |-> "Close", arg |-> 0, val |-> NoVal,
                            err |-> IF rcOk THEN NoError ELSE createError,
                            rc |-> IF rcOk THEN "ok" ELSE "failed",
                            calls |-> <<NativeCall("obx_query_close", cQuery, "none", <<>>)>>,
                            cursors |-> <<>>, pre |-> Pre]
           ELSE /\ rcOk
                /\ last' = [op |-> "Close", arg |-> 0, val |-> NoVal, err |-> NoError,
                            rc |-> "none", calls |-> <<>>, cursors |-> <<>>, pre |-> Pre]
                /\ UNCHANGED <<closeCalls, nativeFreed, cQuery>>
        /\ UNCHANGED <<offset, limit, objects, others>>

\* Close, with the mutex free: the whole method runs without interruption
Close ==
    \E rcOk \in BOOLEAN :
        /\ IF cQuery # NilHandle
           THEN /\ closeCalls' = closeCalls + 1
                /\ nativeFreed' = TRUE
                /\ cQuery' = NilHandle
                /\ last' = [op |-> "Close", arg |-> 0, val |-> NoVal,
                            err |-> IF rcOk THEN NoError ELSE createError,
                            rc |-> IF rcOk THEN "ok" ELSE "failed",
                            calls |-> <<NativeCall("obx_query_close", cQuery, "none", <<>>)>>,
                            cursors |-> <<>>, pre |-> Pre]
           ELSE /\ rcOk
                /\ last' = [op |-> "Close", arg |-> 0, val |-> NoVal, err |-> NoError,
                            rc |-> "none", calls |-> <<>>, cursors |-> <<>>, pre |-> Pre]
                /\ UNCHANGED <<closeCalls, nativeFreed, cQuery>>
        /\ UNCHANGED <<offset, limit, objects, others>>

\* Offset as it would be if it also reset the limit
OffsetResetsLimit ==
    \E o \in PageArgs :
        /\ offset' = o
        /\ limit' = 0
        /\ last' = [op |-> "Offset", arg |-> o, val |-> NoVal, err |-> NoError, calls |-> <<>>,
                    rc |-> "none", cursors |-> <<>>, pre |-> Pre]
        /\ UNCHANGED <<cQuery, nativeFreed, closeCalls, objects, others>>

Offset ==
    \E o \in PageArgs :
        /\ offset' = o
        /\ last' = [op |-> "Offset", arg |-> o, val |-> NoVal, err |-> NoError, calls |-> <<>>,
                    rc |-> "none", cursors |-> <<>>, pre |-> Pre]
        /\ UNCHANGED <<cQuery, limit, nativeFreed, closeCalls, objects, others>>

Limit ==
    \E l \in PageArgs :
        /\ limit' = l
        /\ last' = [op |-> "Limit", arg |-> l, val |-> NoVal, err |-> NoError, calls |-> <<>>,
                    rc |-> "none", cursors |-> <<>>, pre |-> Pre]
        /\ UNCHANGED <<cQuery, offset, nativeFreed, closeCalls, objects, others>>

\* a native call's outcome only matters when the call is made
Made(r, rcOk) == r.calls = <<>> => rcOk

CallFind ==
    \E rcOk \in BOOLEAN :
        LET r == Find(TheQuery, objects, rcOk)
        IN  Made(r, rcOk) /\ Returned("Find", 0, r, rcOk)

CallFindIds ==
    \E rcOk, emptyNil \in BOOLEAN :
        LET r == FindIds(TheQuery, objects, rcOk, emptyNil)
        IN  /\ Made(r, rcOk)
            /\ emptyNil => (rcOk /\ objects = <<>> /\ r.calls # <<>>)
            /\ Returned("FindIds", 0, r, rcOk)

CallCount ==
    \E rcOk \in BOOLEAN :
        LET r == Count(TheQuery, objects, rcOk)
        IN  Made(r, rcOk) /\ Returned("Count", 0, r, rcOk)

CallRemove ==
    \E rcOk \in BOOLEAN :
        LET r == Remove(TheQuery, objects, rcOk)
        IN  Made(r, rcOk) /\ Returned("Remove", 0, r, rcOk)

CallDescribe ==
    LET r == Describe(TheQuery, objects)
    IN  Returned("Describe", 0, r, TRUE)

SetterOutcome(name, q, values, objs, rcOk) ==
    CASE name = "SetStringParams" -> SetStringParams(q, values, objs, rcOk)
      [] name = "SetStringParamsIn" -> SetStringParamsIn(q, values, objs, rcOk)
      [] name = "SetInt64Params" -> SetInt64Params(q, values, objs, rcOk)
      [] name = "SetInt64ParamsIn" -> SetInt64ParamsIn(q, values, objs, rcOk)
      [] name = "SetInt32ParamsIn" -> SetInt32ParamsIn(q, values, objs, rcOk)
      [] name = "SetFloat64Params" -> SetFloat64Params(q, values, objs, rcOk)
      [] name = "SetBytesParams" -> SetBytesParams(q, values, objs, rcOk)

CallSetter ==
    \E name \in Setters, n \in 0 .. MaxValues, rcOk \in BOOLEAN :
        LET r == SetterOutcome(name, TheQuery, ParamValues(n), objects, rcOk)
        IN  Made(r, rcOk) /\ Returned(name, n, r, rcOk)

NoCall == [op |-> "new", arg |-> 0, val |-> NoVal, err |-> NoError, calls |-> <<>>,
           rc |-> "none", cursors |-> <<>>,
           pre |-> [cQuery |-> TheHandle, offset |-> 0, limit |-> 0, objects |-> <<>>,
                    nativeFreed |-> FALSE, closeCalls |-> 0]]

\* a Query as the query builder returns it: open, offset and limit zero
InitQuery ==
    /\ cQuery = TheHandle
    /\ offset = 0
    /\ limit = 0
    /\ nativeFreed = FALSE
    /\ closeCalls = 0
    /\ \E n \in 0 .. MaxIds : objects = NativeIds(n)

\* no goroutine is in a call
InitIdle ==
    /\ closeMutex = 0
    /\ pc = [g \in Procs |-> IF g = Finalizer THEN "installed" ELSE "idle"]
    /\ rc = [g \in Procs |-> TRUE]
    /\ misuse = {}
    /\ stdout = <<>>

Init ==
    /\ InitQuery
    /\ last = NoCall
    /\ InitIdle
    /\ InitNoBinding

Next ==
    \/ Close
    \/ Offset
    \/ Limit
    \/ CallFind
    \/ CallFindIds
    \/ CallCount
    \/ CallRemove
    \/ CallDescribe
    \/ CallSetter

Spec == Init /\ [][Next]_vars

\* ---------------------------------------------------------- SpecConc: steps
\* Each goroutine runs one method call at a time; a step is one access to the
\* Query's fields or one native call. Only Close takes closeMutex.
CursorOps == {"Find", "FindIds", "Count", "Remove"}
CheckedOps == CursorOps \cup {"Describe"}

Goto(g, label) == pc' = [pc EXCEPT ![g] = label]

\* the handle a native query function is given, judged by the native engine
Misused(h) ==
    IF h = NilHandle THEN {"nil handle"}
    ELSE IF nativeFreed THEN {"closed handle"}
    ELSE {}

\* Close as it would be without its mutex
CloseLockNoMutex(g) ==
    /\ pc[g] = (IF g = Finalizer THEN "queryFinalizer" ELSE "idle")
    /\ closeMutex' = g
    /\ Goto(g, IF cQuery # NilHandle THEN "Close:native" ELSE "Close:skip")
    /\ rc' = [rc EXCEPT ![g] = TRUE]
    /\ UNCHANGED <<qvars, last, misuse, stdout, bvars>>

\* Close: closeMutex.Lock() and the test of query.cQuery
CloseLock(g) ==
    /\ pc[g] = (IF g = Finalizer THEN "queryFinalizer" ELSE "idle")
    /\ closeMutex = 0
    /\ closeMutex' = g
    /\ Goto(g, IF cQuery # NilHandle THEN "Close:native" ELSE "Close:skip")
    /\ rc' = [rc EXCEPT ![g] = TRUE]
    /\ UNCHANGED <<qvars, last, misuse, stdout, bvars>>

\* Close: rc := C.obx_query_close(query.cQuery)
CloseNative(g) ==
    /\ pc[g] = "Close:native"
    /\ \E rcOk \in BOOLEAN : rc' = [rc EXCEPT ![g] = rcOk]
    /\ misuse' = misuse \cup Misused(cQuery)
    /\ nativeFreed' = TRUE
    /\ closeCalls' = closeCalls + 1
    /\ Goto(g, "Close:nil")
    /\ UNCHANGED <<cQuery, offset, limit, objects, last, closeMutex, stdout, bvars>>

\* Close: query.cQuery = nil
CloseSetNil(g) ==
    /\ pc[g] = "Close:nil"
    /\ cQuery' = NilHandle
    /\ Goto(g, "Close:unlock")
    /\ UNCHANGED <<offset, limit, nativeFreed, closeCalls, objects, last, closeMutex, rc, misuse, stdout, bvars>>

\* Close: the deferred closeMutex.Unlock() and the return (createError() iff rc # 0);
\* "Close:skip": the handle was nil, the native call was skipped
CloseUnlock(g) ==
    /\ pc[g] \in {"Close:unlock", "Close:skip"}
    /\ closeMutex = g
    /\ closeMutex' = 0
    /\ IF g = Finalizer
       THEN Goto(g, "queryFinalizer:err") /\ UNCHANGED rc
       ELSE Goto(g, "idle") /\ rc' = [rc EXCEPT ![g] = TRUE]
    /\ UNCHANGED <<qvars, last, misuse, stdout, bvars>>

\* Find, FindIds, Count, Remove, Describe up to the callback: Count and Remove return
\* at once when offset or limit is set; the cursor methods acquire their cursor
Begin(g, op) ==
    /\ pc[g] = "idle"
    /\ op \in CheckedOps
    /\ IF op \in {"Count", "Remove"} /\ (offset # 0 \/ limit # 0)
       THEN UNCHANGED pc
       ELSE Goto(g, op \o ":check")
    /\ UNCHANGED <<qvars, last, closeMutex, rc, misuse, stdout, bvars>>

\* find, findIds, count, remove, Describe: if query.cQuery == nil { return errorClosed }
Check(g, op) ==
    /\ pc[g] = op \o ":check"
    /\ Goto(g, IF cQuery = NilHandle THEN "idle" ELSE op \o ":native")
    /\ UNCHANGED <<qvars, last, closeMutex, rc, misuse, stdout, bvars>>

\* find, findIds, count, remove, Describe: the native call. query.cQuery is read
\* again without synchronisation: the call gets the value the test saw or the current one
Native(g, op) ==
    /\ pc[g] = op \o ":native"
    /\ \E h \in {TheHandle, cQuery}, rcOk \in BOOLEAN :
        /\ misuse' = misuse \cup Misused(h)
        /\ objects' = IF op = "Remove" /\ rcOk /\ Misused(h) = {} THEN <<>> ELSE objects
    /\ Goto(g, "idle")
    /\ UNCHANGED <<cQuery, offset, limit, nativeFreed, closeCalls, last, closeMutex, rc, stdout, bvars>>

\* a parameter setter with an accepted number of values: query.cQuery is read for the
\* native call, with no test
SetterRead(g) ==
    /\ pc[g] = "idle"
    /\ IF cQuery = NilHandle
       THEN misuse' = misuse \cup Misused(cQuery) /\ UNCHANGED pc
       ELSE Goto(g, "Setter:native") /\ UNCHANGED misuse
    /\ UNCHANGED <<qvars, last, closeMutex, rc, stdout, bvars>>

\* a parameter setter: the native binding call with the handle read before
SetterNative(g) ==
    /\ pc[g] = "Setter:native"
    /\ misuse' = misuse \cup Misused(TheHandle)
    /\ Goto(g, "idle")
    /\ UNCHANGED <<qvars, last, closeMutex, rc, stdout, bvars>>

\* a goroutine drops its reference to the Query and makes no further call on it
Release(g) ==
    /\ pc[g] = "idle"
    /\ Goto(g, "released")
    /\ UNCHANGED <<qvars, last, closeMutex, rc, misuse, stdout, bvars>>

\* runtime.SetFinalizer(query, queryFinalizer): the runtime calls queryFinalizer(query)
\* once, after the Query has become unreachable
queryFinalizer ==
    /\ pc[Finalizer] = "installed"
    /\ \A g \in Goroutines : pc[g] = "released"
    /\ Goto(Finalizer, "queryFinalizer")
    /\ UNCHANGED <<qvars, last, closeMutex, rc, misuse, stdout, bvars>>

\* queryFinalizer: if err != nil { fmt.Printf(...) }, and the return (no value)
FinalizerReturn ==
    /\ pc[Finalizer] = "queryFinalizer:err"
    /\ stdout' = IF rc[Finalizer] THEN stdout
                 ELSE Append(stdout, "Error while finalizer closed query: " \o createError)
    /\ Goto(Finalizer, "done")
    /\ UNCHANGED <<qvars, last, closeMutex, rc, misuse, bvars>>

InitConc ==
    /\ InitQuery
    /\ objects = NativeIds(1)
    /\ last = NoCall
    /\ InitIdle
    /\ InitNoBinding

NextConc ==
    \/ \E g \in Procs :
        \/ CloseLock(g)
        \/ CloseNative(g)
        \/ CloseSetNil(g)
        \/ CloseUnlock(g)
    \/ queryFinalizer
    \/ FinalizerReturn
    \/ \E g \in Goroutines :
        \/ Release(g)
        \/ \E op \in CheckedOps : Begin(g, op)
        \/ \E op \in CheckedOps : Check(g, op)
        \/ \E op \in CheckedOps : Native(g, op)
        \/ SetterRead(g)
        \/ SetterNative(g)

SpecConc == InitConc /\ [][NextConc]_vars

InitBind ==
    /\ InitQuery
    /\ objects = <<>>
    /\ last = NoCall
    /\ InitIdle
    /\ \E ts \in TypeLists :
        /\ entity = Entity(ts)
        /\ record \in Records(Entity(ts))
    /\ goIntBits \in {Int32Bits, 2 * Int32Bits}
    /\ idArg \in {1, 2}
    /\ phase = "model"
    /\ binding = NoBinding
    /\ fbb = NewBuilder
    /\ bytes = NewBuilder
    /\ got = NoGet
    /\ decoded = (IdName :> 0)

SpecBind == InitBind /\ [][NextBind]_vars

\* ===================================================================== claims
NilHandleCalls(calls) == {i \in 1 .. Len(calls) : calls[i].handle = NilHandle}
QueryOps == {"Find", "FindIds", "Count", "Remove", "Describe"}

\* C1: after Close() has returned, Find, FindIds, Count, Remove and Describe return the
\* closed-resource error for every offset and limit set before, and none of them hands
\* the nil handle to a native query function.
C1_ClosedQueryOperationsFail ==
    (last.op \in QueryOps /\ last.pre.cQuery = NilHandle)
        => (last.err = errorClosed /\ NilHandleCalls(last.calls) = {})

\* the number of values a setter accepts
Accepts(name, n) ==
    CASE name \in {"SetStringParams", "SetBytesParams"} -> n = 1
      [] name \in {"SetInt64Params", "SetFloat64Params"} -> n \in {1, 2}
      [] name \in {"SetStringParamsIn", "SetInt64ParamsIn", "SetInt32ParamsIn"} -> n >= 1

\* C2: after Close() has returned, every parameter setter called with an accepted number
\* of values returns the closed-resource error and makes no native parameter-binding call
\* on the nil handle.
C2_ClosedQuerySettersFail ==
    (last.op \in Setters /\ Accepts(last.op, last.arg) /\ last.pre.cQuery = NilHandle)
        => (last.err = errorClosed /\ last.calls = <<>>)

\* C4: Close() is idempotent: once a Close() has run on the Query (the native close was
\* invoked), every further Close() returns nil and invokes no native close, whatever
\* calls were made in between.
C4_CloseIdempotent ==
    (last.op = "Close" /\ last.pre.nativeFreed)
        => (last.err = NoError /\ last.calls = <<>> /\ closeCalls = last.pre.closeCalls)

\* a second Close() returned, after other calls on the closed Query
C4_Witness ==
    /\ last.op = "Close"
    /\ last.pre.nativeFreed
    /\ last.pre.offset # 0
    /\ last.err = NoError

\* C5: when the native free call made by Close() reports failure, Close() returns a
\* native-call error and the handle is nil afterwards; and a Close() on a Query whose
\* handle is nil returns nil without any native call.
C5_CloseFailureClearsHandle ==
    /\ (last.op = "Close" /\ last.rc = "failed")
           => (last.err = createError /\ cQuery = NilHandle)
    /\ (last.op = "Close" /\ last.pre.cQuery = NilHandle)
           => (last.err = NoError /\ last.calls = <<>>)
    /\ nativeFreed => cQuery = NilHandle

\* a Close() whose native free call failed has returned
C5_Witness ==
    /\ last.op = "Close"
    /\ last.rc = "failed"
    /\ last.err = createError
    /\ cQuery = NilHandle

\* ids without its first off entries, cut to at most lim entries (lim = 0: all of them)
Page(ids, off, lim) ==
    LET rest == IF off >= Len(ids) THEN <<>> ELSE SubSeq(ids, off + 1, Len(ids))
    IN  IF lim = 0 \/ lim >= Len(rest) THEN rest ELSE SubSeq(rest, 1, lim)

\* C6: on an open Query whose native id retrieval succeeds, FindIds returns, for every
\* offset and limit, exactly the ids after the first offset entries, cut to at most limit
\* entries (0: all), in native order; it returns the empty list, without failing, when
\* offset is at least the number of ids.
C6_FindIdsPage ==
    (last.op = "FindIds" /\ last.pre.cQuery # NilHandle /\ last.rc = "ok")
        => (last.err = NoError
            /\ last.val.ids.elems = Page(last.pre.objects, last.pre.offset, last.pre.limit))

\* C7: Count() and Remove() on a Query whose offset or limit is non-zero return the
\* unsupported-option error with count 0, acquire no cursor, make no native call and
\* leave the stored objects and the Query's handle, offset and limit unchanged.
C7_CountRemoveRejectOptions ==
    (last.op \in {"Count", "Remove"} /\ (last.pre.offset # 0 \/ last.pre.limit # 0))
        => /\ last.err = (IF last.op = "Count" THEN ErrCountUnsupported ELSE ErrRemoveUnsupported)
           /\ last.val.count = 0
           /\ last.cursors = <<>>
           /\ last.calls = <<>>
           /\ objects = last.pre.objects
           /\ cQuery = last.pre.cQuery
           /\ offset = last.pre.offset
           /\ limit = last.pre.limit

\* Remove() was rejected on an open Query with only a limit set and objects to remove
C7_Witness ==
    /\ last.op = "Remove"
    /\ last.pre.offset = 0
    /\ last.pre.limit # 0
    /\ last.pre.cQuery # NilHandle
    /\ last.pre.objects # <<>>
    /\ last.err = ErrRemoveUnsupported

\* C8: setters enforce arity before any native call: with no value every setter returns
\* "no values given"; with more values than it accepts a non-In setter returns "too many
\* values given"; in both cases no native call is made; with an accepted number of values
\* (one for strings and bytes, one or two for int64 and float64, one or more for the
\* In-list setters) exactly one native binding call is made, with all the values.
C8_SetterArity ==
    last.op \in Setters =>
        /\ last.arg = 0 => (last.err = ErrNoValues /\ last.calls = <<>>)
        /\ (last.arg > 0 /\ ~Accepts(last.op, last.arg))
               => (last.err = ErrTooMany /\ last.calls = <<>>)
        /\ Accepts(last.op, last.arg)
               => /\ Len(last.calls) = 1
                  /\ last.calls[1].args = ParamValues(last.arg)
                  /\ last.err \in {NoError, createError}

\* SetInt64Params was given three values and rejected them
C8_Witness ==
    /\ last.op = "SetInt64Params"
    /\ last.arg = 3
    /\ last.err = ErrTooMany
    /\ last.calls = <<>>

\* C3: when Close() runs concurrently with another operation on the Query, no
\* interleaving lets the operation hand a handle to a native call after
\* obx_query_close has been invoked on that handle.
C3_NoNativeCallOnClosedHandle == "closed handle" \notin misuse

\* every property of the entity has a Go type the template has a rule for
Supported(e) ==
    \A i \in 1 .. Len(e.Properties) :
        IsOffsetProperty(e.Properties[i]) => e.Properties[i].GoType \in {"string", "[]byte"}

\* C9: round trip of the generated binding: for every entity of supported Go types, every
\* record and every id, ToObject(Flatten(record, id)) is the record with its identifier
\* field replaced by id.
C9_RoundTrip ==
    (phase = "decoded" /\ Supported(entity))
        => decoded = [record EXCEPT ![IdName] = idArg]

\* C10: given a variable-length property whose Go type is neither string nor []byte,
\* generation fails with an error and no binding source with a placeholder is produced.
C10_UnknownTypeFailsGeneration ==
    (phase # "model" /\ ~Supported(entity))
        => (binding.err # NoError /\ Compiles(binding))

\* the zero value of a Go type
ZeroValue(goType) ==
    CASE goType = "bool" -> FALSE
      [] goType \in {"int", "uint", "rune", "int64", "uint64"} -> 0
      [] goType = "string" -> ""
      [] goType = "[]byte" -> <<>>

SlotAbsent(p) == p.FbSlot \notin DOMAIN bytes.table

C12_TypedGetAbsenceIsNotFailure ==
    phase = "got" =>
        /\ got.inner.err # NoError => (got.entity = NilObject /\ got.err = got.inner.err)
        /\ (got.inner.err = NoError /\ got.id # idArg)
               => (got.entity = NilObject /\ got.err = NoError)
        /\ (got.inner.err = NoError /\ got.id = idArg)
               => (got.entity = Object("*Entity", ToObject(binding, fbb)) /\ got.err = NoError)
        /\ ~(got.entity # NilObject /\ got.err # NoError)

\* Get was asked for an id the box does not hold and returned (nil, nil)
C12_Witness ==
    /\ phase = "got"
    /\ got.id # idArg
    /\ got.inner.err = NoError
    /\ got.entity = NilObject
    /\ got.err = NoError

\* C13: FindIds propagates failures for every offset and limit: whenever the id retrieval
\* in the cursor fails (the native call fails, or the Query is closed), FindIds returns
\* that error and no ids, also with a non-zero offset or limit; it does not return a nil
\* error and does not panic slicing the nil id list.
C13_FindIdsPropagatesFailure ==
    (last.op = "FindIds" /\ (last.rc = "failed" \/ last.pre.cQuery = NilHandle))
        => /\ last.err = (IF last.pre.cQuery = NilHandle THEN errorClosed ELSE createError)
           /\ last.val.ids = NilSlice

Min(a, b) == IF a <= b THEN a ELSE b

\* C14: FindIds computes the end index with the mathematical sum offset + limit: on an
\* open Query whose id retrieval succeeds with n ids and offset <= n, the result is
\* ids[offset : min(n, offset + limit)] (limit 0: up to n), also when offset + limit
\* exceeds the largest unsigned word.
C14_FindIdsEndIndex ==
    (last.op = "FindIds" /\ last.pre.cQuery # NilHandle /\ last.rc = "ok"
     /\ last.pre.offset <= Len(last.pre.objects))
        => LET n == Len(last.pre.objects)
               end == IF last.pre.limit = 0 THEN n ELSE Min(n, last.pre.offset + last.pre.limit)
           IN  /\ last.err = NoError
               /\ last.val.ids.elems = SubSeq(last.pre.objects, last.pre.offset + 1, end)

\* C15: a property of Go type int (uint) holding a value of the signed (unsigned) 32-bit
\* range, negative int values included, decodes to exactly the value encoded: Flatten
\* writes int32(v) (uint32(v)) into the slot and ToObject on that buffer yields v.
C15_IntUintRoundTrip ==
    phase = "decoded" =>
        \A i \in 1 .. Len(entity.Properties) :
            LET p == entity.Properties[i]
                v == record[p.Name]
            IN  p.GoType \in {"int", "uint"} =>
                    /\ v # 0 => (p.FbSlot \in DOMAIN fbb.table
                                 /\ fbb.table[p.FbSlot] = Unsigned(v, Int32Mod))
                    /\ decoded[p.Name] = v

\* Flatten has run
Flattened == phase \in {"flattened", "decoded", "decoded older", "got"}

\* C16: in every Flatten that runs, the child buffers of the string and []byte properties
\* are created first, one per such property in declaration order and none later; then
\* StartObject is called once, with lastPropertyId slots; then one slot write is made per
\* property, in declaration order, and the slot of a string or []byte property receives
\* the offset of the child buffer created for that property.
C16_FlattenOrder ==
    Flattened =>
        LET props == entity.Properties
            offs == SelectSeq(props, IsOffsetProperty)
            k == Len(offs)
            calls == fbb.calls
        IN  /\ Len(calls) = k + 1 + Len(props)
            /\ \A i \in 1 .. k :
                   /\ calls[i].fn = (IF offs[i].GoType = "string" THEN "CreateStringOffset"
                                     ELSE "CreateByteVectorOffset")
                   /\ calls[i].prop = offs[i].Name
                   /\ fbb.children[i] = record[offs[i].Name]
                   /\ fbb.table[offs[i].FbSlot] = i
            /\ calls[k + 1] = [fn |-> "StartObject", slots |-> entity.LastPropertyId]
            /\ \A i \in 1 .. Len(props) :
                   calls[k + 1 + i] = [fn |-> "Prepend" \o props[i].FbType \o "Slot",
                                       slot |-> props[i].FbSlot, prop |-> props[i].Name]

\* Flatten has run for an entity with a string and a []byte property
C16_Witness ==
    /\ phase = "flattened"
    /\ Len(fbb.children) = 2
    /\ fbb.calls[1].fn # fbb.calls[2].fn
    /\ fbb.calls[3].fn = "StartObject"

\* C17: over every interleaving of Close() calls of the goroutines and of the finalizer's
\* Close() on the same Query, obx_query_close is invoked at most once, and only with a
\* handle that is not nil and was not closed before; a finalizer that runs after a
\* Close() made the native call makes none; and a failure of the finalizer's Close is
\* printed, once, and nothing else comes of it.
C17_NativeCloseAtMostOnce ==
    /\ closeCalls <= 1
    /\ \A p \in Procs :
           pc[p] = "Close:native" => (cQuery # NilHandle /\ ~nativeFreed /\ closeMutex = p)
    /\ pc[Finalizer] = "Close:native" => closeCalls = 0
    /\ Len(stdout) <= 1
    /\ stdout # <<>> => (pc[Finalizer] = "done" /\ ~rc[Finalizer] /\ closeCalls = 1)
    /\ (pc[Finalizer] = "done" /\ ~rc[Finalizer]) => stdout # <<>>

\* the finalizer's Close runs after a Close() of a goroutine made the native call: it
\* found the handle nil and skips the native call
C17_Witness ==
    /\ pc[Finalizer] = "Close:skip"
    /\ closeCalls = 1
    /\ cQuery = NilHandle
    /\ \A g \in Goroutines : pc[g] = "released"

\* C18: the Closed state is permanent and every field of the Query has one writer: a nil
\* handle stays nil under every call; only Close() changes the handle, and only to nil;
\* only Offset() changes offset and only Limit() changes limit, each to its argument,
\* leaving the other field and the handle alone, on a closed Query too; Find, FindIds,
\* Count, Remove, Describe and the setters change none of the three, whether they
\* succeed, fail or panic.
C18_FieldsHaveOneWriter ==
    /\ last.pre.cQuery = NilHandle => cQuery = NilHandle
    /\ cQuery \in {last.pre.cQuery, NilHandle}
    /\ last.op # "Close" => cQuery = last.pre.cQuery
    /\ last.op = "Close" => cQuery = NilHandle
    /\ last.op # "Offset" => offset = last.pre.offset
    /\ last.op # "Limit" => limit = last.pre.limit
    /\ last.op = "Offset" => offset = last.arg
    /\ last.op = "Limit" => limit = last.arg
    /\ last.op \in QueryOps \cup Setters
           => (cQuery = last.pre.cQuery /\ offset = last.pre.offset /\ limit = last.pre.limit)

\* Offset() was called on a closed Query that had a limit, and set the offset
C18_Witness ==
    /\ last.op = "Offset"
    /\ last.pre.cQuery = NilHandle
    /\ last.pre.limit # 0
    /\ last.arg # last.pre.offset
    /\ offset = last.arg
    /\ limit = last.pre.limit

\* the cursor a method runs its native call in
CursorOf(op) == IF op = "Remove" THEN "write" ELSE "read"

\* C19: every call of Find, FindIds, Count or Remove acquires at most one cursor, read-only
\* for Find, FindIds and Count and writable for Remove; its native query call, if any, is
\* made in that cursor, which is released before the call returns, also when the call
\* fails; and Find hands the Query's offset and limit as they are to the native find.
C19_CursorPerCall ==
    last.op \in CursorOps =>
        /\ last.cursors \in {<<>>, <<CursorOf(last.op)>>}
        /\ Len(last.calls) <= Len(last.cursors)
        /\ \A i \in 1 .. Len(last.calls) : last.calls[i].cursor = last.cursors[1]
        /\ (last.pre.offset = 0 /\ last.pre.limit = 0) => Len(last.cursors) = 1
        /\ (last.op \in {"Find", "FindIds"}) => Len(last.cursors) = 1
        /\ (last.op = "Find" /\ last.pre.cQuery # NilHandle)
               => (Len(last.calls) = 1
                   /\ last.calls[1].fn = "obx_query_find"
                   /\ last.calls[1].args = <<last.pre.offset, last.pre.limit>>)

\* Find ran on an open Query with an offset and a limit and handed both to the native find
C19_Witness ==
    /\ last.op = "Find"
    /\ last.pre.cQuery # NilHandle
    /\ last.pre.offset # 0
    /\ last.pre.limit # 0
    /\ last.pre.offset # last.pre.limit
    /\ last.cursors = <<"read">>
    /\ last.calls[1].args = <<last.pre.offset, last.pre.limit>>

====
